---- MODULE Spec2Model ----
(***************************************************************************)
(* Model of the QGIS plugin 'Length' (src/length_plugin.py): the class     *)
(* LengthPlugin with its lifecycle hooks initGui / unload and its handler  *)
(* run, together with the host objects the handler acts through: the      *)
(* interface's menu and toolbar, the project's layer registry, the         *)
(* processing service and the layers' edit state.                          *)
(*                                                                         *)
(* The host is the environment.  Each call into it is a nondeterministic   *)
(* choice over what the host can answer: processing.run may register a     *)
(* layer in the project, return a layer object or an opaque reference, or  *)
(* raise; the QgsVectorLayer constructor may give a valid or an invalid    *)
(* layer or raise; isEditable / startEditing may raise, and startEditing   *)
(* may refuse.  The active layer is any layer of the project or none; a     *)
(* layer that is no vector layer has no fields(), so that line 46 raises   *)
(* outside run's try and the exception leaves run.  The other host getters *)
(* (type, isValid, id, name, mapLayers, addMapLayer on a valid layer) are  *)
(* total.                                                                  *)
(***************************************************************************)
EXTENDS Integers, Sequences, FiniteSets, TLC

\* ------------------------------------------------------------------ bounds
MaxLayers == 5      \* layer objects that ever exist (ids 1..MaxLayers)
MaxActions == 6     \* QAction objects initGui ever creates

VARIABLES
    action,            \* self.action: 0 is None, n > 0 the n-th QAction created
    menu,              \* host: actions with an entry in the "&Length" plugin menu
    toolbar,           \* host: actions with a toolbar icon
    nextAction,        \* host: number of the next QAction object
    ifaceCalls,        \* iface calls made by the most recent lifecycle hook
    lastHook,          \* the most recent lifecycle hook: "none", "initGui", "unload"
    doubleInit,        \* initGui ran while an earlier action was still registered
    registry,          \* host: the project's layers, in the order they were added
    editable,          \* host: ids of the layers in edit mode
    nextId,            \* host: id of the next layer object created
    pc,                \* position of run in the current invocation
    layer,             \* run: layer
    existing_ids,      \* run: existing_ids
    res1,              \* run: res1['OUTPUT']
    res2,              \* run: res2['OUTPUT']
    final_output_ref,  \* run: final_output_ref
    final_layer,       \* run: final_layer
    new_layers,        \* run: new_layers
    calls,             \* the invocation's calls that act on the host
    dialogs,           \* the invocation's modal dialogs, in order
    regBefore,         \* the registry when the invocation started
    edBefore,          \* the edit state when the invocation started
    svcAdded,          \* ids the processing service registered in this invocation
    raisedAt,          \* stage whose processing.run raised (0: none)
    editOutcome,       \* how entering edit mode went
    prev               \* the latest invocation that failed validation: layer id, dialogs

vars == <<action, menu, toolbar, nextAction, ifaceCalls, lastHook, doubleInit,
          registry, editable, nextId, pc, layer, existing_ids, res1, res2,
          final_output_ref, final_layer, new_layers, calls, dialogs,
          regBefore, edBefore, svcAdded, raisedAt, editOutcome, prev>>

guiVars == <<action, menu, toolbar, nextAction, ifaceCalls, lastHook, doubleInit>>
hostVars == <<registry, editable, nextId>>
localVars == <<layer, existing_ids, res1, res2, final_output_ref, final_layer, new_layers>>
ghostVars == <<regBefore, edBefore, svcAdded, raisedAt, editOutcome, prev>>

\* ------------------------------------------------------------- host values
\* A layer object.  kind "vector" is a QgsVectorLayer, "raster" any other map
\* layer; valid is isValid(); fields the names layer.fields() yields.
Lyr(i, k, v, fs) == [id |-> i, kind |-> k, valid |-> v, fields |-> fs]

\* Python's None.
NoLayer == Lyr(0, "none", FALSE, {})

\* An output of processing.run that is no layer object: the reference (a
\* string) of the memory output of stage s.
Ref(s) == Lyr(0 - s, "ref", FALSE, {})

\* The layer objects the host can produce, by type() and isValid().  A layer that
\* is no vector layer is never asked for its validity.
LayerVariants == {<<"vector", TRUE>>, <<"vector", FALSE>>, <<"raster", TRUE>>}

\* Fields of the layers the processing service produces.
OutFields == {"begin", "end", "LENGTH"}

\* Messages of the exceptions processing.run raises.
ErrMsgs == {"Algorithm not found", "Could not load source layer"}

Range(s) == {s[i] : i \in 1..Len(s)}

\* project.mapLayers().keys()
MapLayerKeys(reg) == {l.id : l \in Range(reg)}

\* project.mapLayer(lid)
MapLayer(reg, lid) == CHOOSE l \in Range(reg) : l.id = lid

\* The orders in which iterating a Python set can yield its elements.
IterOrders(S) ==
    {f \in [1..Cardinality(S) -> S] : \A i, j \in 1..Cardinality(S) : f[i] = f[j] => i = j}

\* `if x` / `not x` on a layer reference.
Truthy(l) == l.kind # "none"

\* isinstance(x, QgsVectorLayer)
IsVectorLayer(l) == l.kind = "vector"

\* ---------------------------------------------------------------- dialogs
NoLayerText == "No active layer selected. Please select a point layer."
NoFieldText == "PHOTO_ID column not found"
PipelineText == "An error occurred while running processing algorithms:\\n{}"
NoFinalText == "Failed to create final 'Exploded' layer with LENGTH field. Check processing providers are available."
DoneText == "Completed: 'Points to Path' -> 'Explode Lines' -> Added 'LENGTH' field and populated with $length. Final layer: '{}'"

\* QMessageBox.critical(..., "Length plugin - Error", text): text is the
\* message, detail what is formatted into its {} ("" when there is none).
ShowError(text, detail) ==
    [kind |-> "error", title |-> "Length plugin - Error", text |-> text,
     detail |-> detail, layer |-> 0]

\* QMessageBox.information(..., "Length plugin", text); lid identifies the layer
\* whose name() is formatted into the text.
ShowInfo(text, lid) ==
    [kind |-> "info", title |-> "Length plugin", text |-> text,
     detail |-> "", layer |-> lid]

\* An entry of the invocation's call log.
Call(op, arg) == [op |-> op, arg |-> arg]

Algorithms == {"native:pointstopath", "native:explodelines", "native:fieldcalculator"}

\* ------------------------------------------------------------------- Init
\* After __init__: no action.  The project holds a point layer with PHOTO_ID,
\* one whose attribute is spelled differently, and a raster layer.
InitialLayers ==
    << Lyr(1, "vector", TRUE, {"PHOTO_ID", "NAME"}),
       Lyr(2, "vector", TRUE, {"photo_id", "NAME"}),
       Lyr(3, "raster", TRUE, {}) >>

NoPrev == [layer |-> 0 - 9, dialogs |-> <<>>]

Init ==
    /\ action = 0
    /\ menu = {}
    /\ toolbar = {}
    /\ nextAction = 1
    /\ ifaceCalls = <<>>
    /\ lastHook = "none"
    /\ doubleInit = FALSE
    /\ registry = InitialLayers
    /\ editable = {}
    /\ nextId = Len(InitialLayers) + 1
    /\ pc = "Idle"
    /\ layer = NoLayer
    /\ existing_ids = {}
    /\ res1 = NoLayer
    /\ res2 = NoLayer
    /\ final_output_ref = NoLayer
    /\ final_layer = NoLayer
    /\ new_layers = <<>>
    /\ calls = <<>>
    /\ dialogs = <<>>
    /\ regBefore = InitialLayers
    /\ edBefore = {}
    /\ svcAdded = {}
    /\ raisedAt = 0
    /\ editOutcome = "none"
    /\ prev = NoPrev

\* No invocation of run is in progress: none was made, or the last one returned
\* after its informational dialog ("Done") or after an error dialog ("Failed"),
\* or an exception left run ("Escaped").
AtRest == pc \in {"Idle", "Done", "Failed", "Escaped"}

\* -------------------------------------------------------------- lifecycle
\* initGui: a new QAction, connected to run, added to the menu and the toolbar.
InitGui ==
    /\ AtRest
    /\ nextAction <= MaxActions
    /\ action' = nextAction
    /\ nextAction' = nextAction + 1
    /\ menu' = menu \cup {nextAction}
    /\ toolbar' = toolbar \cup {nextAction}
    /\ ifaceCalls' = << Call("addPluginToMenu", nextAction),
                        Call("addToolBarIcon", nextAction) >>
    /\ lastHook' = "initGui"
    /\ doubleInit' = (doubleInit \/ menu # {} \/ toolbar # {})
    /\ UNCHANGED <<hostVars, pc, localVars, calls, dialogs, ghostVars>>

\* unload, with everything but the removal from the menu.
UnloadMenuOnly ==
    /\ AtRest
    /\ IF action # 0
         THEN /\ menu' = menu \ {action}
              /\ toolbar' = toolbar
              /\ ifaceCalls' = << Call("removePluginMenu", action) >>
         ELSE /\ UNCHANGED <<menu, toolbar>>
              /\ ifaceCalls' = <<>>
    /\ lastHook' = "unload"
    /\ UNCHANGED <<action, nextAction, doubleInit, hostVars, pc, localVars,
                   calls, dialogs, ghostVars>>

\* unload: if self.action is set, remove it from the menu and the toolbar.
Unload ==
    /\ AtRest
    /\ IF action # 0
         THEN /\ menu' = menu \ {action}
              /\ toolbar' = toolbar \ {action}
              /\ ifaceCalls' = << Call("removePluginMenu", action),
                                  Call("removeToolBarIcon", action) >>
         ELSE /\ UNCHANGED <<menu, toolbar>>
              /\ ifaceCalls' = <<>>
    /\ lastHook' = "unload"
    /\ UNCHANGED <<action, nextAction, doubleInit, hostVars, pc, localVars,
                   calls, dialogs, ghostVars>>

\* -------------------------------------------------------------------- run
\* The layers the user can have selected: none, or any layer of the project.
ActiveLayers == {NoLayer} \cup Range(registry)

\* run is entered: layer = self.iface.activeLayer().
Trigger ==
    /\ AtRest
    /\ \E l \in ActiveLayers : layer' = l
    /\ pc' = "Validating"
    /\ existing_ids' = {}
    /\ res1' = NoLayer
    /\ res2' = NoLayer
    /\ final_output_ref' = NoLayer
    /\ final_layer' = NoLayer
    /\ new_layers' = <<>>
    /\ calls' = <<>>
    /\ dialogs' = <<>>
    /\ regBefore' = registry
    /\ edBefore' = editable
    /\ svcAdded' = {}
    /\ raisedAt' = 0
    /\ editOutcome' = "none"
    /\ prev' = IF pc = "Failed" /\ dialogs[1].text \in {NoLayerText, NoFieldText}
                 THEN [layer |-> layer.id, dialogs |-> dialogs]
                 ELSE prev
    /\ UNCHANGED <<guiVars, hostVars>>

\* The invocation ends with an error dialog and changes nothing else.
Abort(text, detail) ==
    /\ dialogs' = Append(dialogs, ShowError(text, detail))
    /\ pc' = "Failed"

\* "PHOTO_ID" in [f.name() for f in layer.fields()]
HasPhotoId(l) == "PHOTO_ID" \in l.fields

\* layer.fields() exists: only vector layers have it, on any other layer the
\* attribute lookup raises AttributeError.
HasFields(l) == l.kind = "vector"

\* The precondition checks and the snapshot of the registry's ids.  Line 46 is
\* outside the try: what it raises leaves run, with no dialog.
Validate ==
    /\ pc = "Validating"
    /\ IF ~Truthy(layer)
         THEN /\ Abort(NoLayerText, "")
              /\ UNCHANGED existing_ids
         ELSE IF ~HasFields(layer)
         THEN /\ pc' = "Escaped"
              /\ UNCHANGED <<dialogs, existing_ids>>
         ELSE IF ~HasPhotoId(layer)
         THEN /\ Abort(NoFieldText, "")
              /\ UNCHANGED existing_ids
         ELSE /\ existing_ids' = MapLayerKeys(registry)
              /\ pc' = "Stage1"
              /\ UNCHANGED dialogs
    /\ UNCHANGED <<guiVars, hostVars, layer, res1, res2, final_output_ref,
                   final_layer, new_layers, calls, ghostVars>>

\* --------------------------------------------------- the processing service
\* The layer object number i of type and validity kv that the service produces.
SvcLayer(i, kv) == Lyr(i, kv[1], kv[2], IF kv[1] = "vector" THEN OutFields ELSE {})

\* What a processing.run call may register in the project: nothing, or one new
\* layer of any type and validity.
SvcRegisters ==
    {NoLayer} \cup
    (IF nextId <= MaxLayers
       THEN {SvcLayer(nextId, kv) : kv \in LayerVariants}
       ELSE {})

\* A layer object the service creates and registers nowhere (the layer of a
\* 'memory:' output), of any type and validity; reg is what the call registered.
SvcUnregistered(reg) ==
    LET i == IF Truthy(reg) THEN nextId + 1 ELSE nextId
    IN  IF i <= MaxLayers
          THEN {SvcLayer(i, kv) : kv \in LayerVariants}
          ELSE {}

\* What a stage's processing.run may hand back as res['OUTPUT'], having registered
\* reg: the reference of its memory output, the layer it registered, or a layer
\* object that is in no project.
SvcOutputs(stage, reg) ==
    {Ref(stage)} \cup (IF Truthy(reg) THEN {reg} ELSE {}) \cup SvcUnregistered(reg)

\* The last stage may as well hand back a layer of the project, or the layer
\* object an earlier stage handed back.
SvcFinalOutputs(reg) ==
    SvcOutputs(3, reg) \cup Range(registry) \cup
    {l \in {res1, res2} : l.kind \in {"vector", "raster"}}

Max(a, b) == IF a >= b THEN a ELSE b

\* processing.run inside a handler that ignores what it raises and goes on.
ProcessingRunSwallowed(stage, alg, input, reg, out, msg, next) ==
    /\ calls' = Append(calls, Call(alg, input.id))
    /\ registry' = IF Truthy(reg) THEN Append(registry, reg) ELSE registry
    /\ svcAdded' = IF Truthy(reg) THEN svcAdded \cup {reg.id} ELSE svcAdded
    /\ pc' = next
    /\ raisedAt' = IF msg # "" THEN stage ELSE raisedAt
    /\ nextId' = Max(Max(nextId, reg.id + 1), out.id + 1)
    /\ UNCHANGED <<guiVars, editable, layer, existing_ids, final_layer, new_layers,
                   dialogs, regBefore, edBefore, editOutcome, prev>>

\* processing.run(alg, {'INPUT': input, ...}) as stage number stage: the host
\* registers reg (if any) and then raises msg, or (msg = "") returns; a raise is
\* caught by run's outer handler, which shows the error dialog.
ProcessingRun(stage, alg, input, reg, out, msg, next) ==
    /\ calls' = Append(calls, Call(alg, input.id))
    /\ registry' = IF Truthy(reg) THEN Append(registry, reg) ELSE registry
    /\ svcAdded' = IF Truthy(reg) THEN svcAdded \cup {reg.id} ELSE svcAdded
    /\ IF msg # ""
         THEN /\ Abort(PipelineText, msg)
              /\ raisedAt' = stage
              /\ nextId' = Max(nextId, reg.id + 1)
         ELSE /\ pc' = next
              /\ nextId' = Max(Max(nextId, reg.id + 1), out.id + 1)
              /\ UNCHANGED <<dialogs, raisedAt>>
    /\ UNCHANGED <<guiVars, editable, layer, existing_ids, final_layer, new_layers,
                   regBefore, edBefore, editOutcome, prev>>

\* 1) Points to Path
Stage1 ==
    /\ pc = "Stage1"
    /\ \E reg \in SvcRegisters, msg \in ErrMsgs \cup {""} :
         \E out \in SvcOutputs(1, reg) :
            /\ ProcessingRun(1, "native:pointstopath", layer, reg, out, msg, "Stage2")
            /\ res1' = IF msg = "" THEN out ELSE res1
    /\ UNCHANGED <<res2, final_output_ref>>

\* Explode Lines given the active layer instead of stage 1's output.
Stage2WrongInput ==
    /\ pc = "Stage2"
    /\ \E reg \in SvcRegisters, msg \in ErrMsgs \cup {""} :
         \E out \in SvcOutputs(2, reg) :
            /\ ProcessingRun(2, "native:explodelines", layer, reg, out, msg, "Stage3")
            /\ res2' = IF msg = "" THEN out ELSE res2
    /\ UNCHANGED <<res1, final_output_ref>>

\* 2) Explode Lines
Stage2 ==
    /\ pc = "Stage2"
    /\ \E reg \in SvcRegisters, msg \in ErrMsgs \cup {""} :
         \E out \in SvcOutputs(2, reg) :
            /\ ProcessingRun(2, "native:explodelines", res1, reg, out, msg, "Stage3")
            /\ res2' = IF msg = "" THEN out ELSE res2
    /\ UNCHANGED <<res1, final_output_ref>>

\* 3) Field calculator, and final_output_ref = res3['OUTPUT']
Stage3 ==
    /\ pc = "Stage3"
    /\ \E reg \in SvcRegisters, msg \in ErrMsgs \cup {""} :
         \E out \in SvcFinalOutputs(reg) :
            /\ ProcessingRun(3, "native:fieldcalculator", res2, reg, out, msg, "Resolving")
            /\ final_output_ref' = IF msg = "" THEN out ELSE final_output_ref
    /\ UNCHANGED <<res1, res2>>

\* ------------------------------------------------------- result resolution
\* What final_layer is after lines 88-97: the returned object if it is a
\* QgsVectorLayer; else QgsVectorLayer(ref, "Exploded_with_LENGTH", "memory"),
\* which for a reference string gives a new layer object, valid or not, or
\* raises, and for any other object raises; a raise leaves None.
ResolveHandle(ref, fresh) ==
    IF IsVectorLayer(ref) THEN {ref}
    ELSE IF ref.kind = "ref"
    THEN {NoLayer} \cup
         (IF fresh <= MaxLayers
            THEN {Lyr(fresh, "vector", v, {}) : v \in BOOLEAN}
            ELSE {})
    ELSE {NoLayer}

\* The loop over added (lines 103-106), iterating the set in the order ord.
NewLayers(reg, ord) ==
    SelectSeq([i \in 1..Len(ord) |-> MapLayer(reg, ord[i])],
              LAMBDA lyr : Truthy(lyr) /\ IsVectorLayer(lyr))

\* Lines 86-106: the handle from stage 3's output, then the registry diff.
Resolving ==
    /\ pc = "Resolving"
    /\ \E fl \in ResolveHandle(final_output_ref, nextId) :
         /\ final_layer' = fl
         /\ nextId' = Max(nextId, fl.id + 1)
    /\ LET after_ids == MapLayerKeys(registry)
           added == after_ids \ existing_ids
       IN  \E ord \in IterOrders(added) : new_layers' = NewLayers(registry, ord)
    /\ pc' = "Registering"
    /\ UNCHANGED <<guiVars, registry, editable, layer, existing_ids, res1, res2,
                   final_output_ref, calls, dialogs, ghostVars>>

\* Lines 108-114 with the branches in the other order: a new layer of the
\* project is taken whenever there is one.
ChosenPrefersDiff(fl, nl) ==
    IF nl # <<>> THEN nl[Len(nl)]
    ELSE fl

\* Lines 108-114: the layer run goes on with.
Chosen(fl, nl) ==
    IF Truthy(fl) /\ fl.valid THEN fl
    ELSE IF nl # <<>> THEN nl[Len(nl)]
    ELSE fl

\* Lines 108-118 without the isValid() test of line 116.
RegisteringUnchecked ==
    /\ pc = "Registering"
    /\ LET fl == Chosen(final_layer, new_layers)
           add == Truthy(final_layer) /\ final_layer.valid
                  /\ final_layer.id \notin MapLayerKeys(registry)
       IN  /\ final_layer' = fl
           /\ registry' = IF add THEN Append(registry, final_layer) ELSE registry
           /\ calls' = IF add THEN Append(calls, Call("addMapLayer", final_layer.id))
                       ELSE calls
           /\ IF ~Truthy(fl)
                THEN Abort(NoFinalText, "")
                ELSE /\ pc' = "Editing"
                     /\ UNCHANGED dialogs
    /\ UNCHANGED <<guiVars, editable, nextId, layer, existing_ids, res1, res2,
                   final_output_ref, new_layers, ghostVars>>

\* Lines 108-118 without the addMapLayer call.
RegisteringNoAdd ==
    /\ pc = "Registering"
    /\ LET fl == Chosen(final_layer, new_layers)
       IN  /\ final_layer' = fl
           /\ IF ~Truthy(fl) \/ ~fl.valid
                THEN Abort(NoFinalText, "")
                ELSE /\ pc' = "Editing"
                     /\ UNCHANGED dialogs
    /\ UNCHANGED <<guiVars, hostVars, layer, existing_ids, res1, res2,
                   final_output_ref, new_layers, calls, ghostVars>>

\* Lines 108-118 without the test of line 110: a valid handle is always added.
RegisteringAlwaysAdds ==
    /\ pc = "Registering"
    /\ LET fl == Chosen(final_layer, new_layers)
           add == Truthy(final_layer) /\ final_layer.valid
       IN  /\ final_layer' = fl
           /\ registry' = IF add THEN Append(registry, final_layer) ELSE registry
           /\ calls' = IF add THEN Append(calls, Call("addMapLayer", final_layer.id))
                       ELSE calls
           /\ IF ~Truthy(fl) \/ ~fl.valid
                THEN Abort(NoFinalText, "")
                ELSE /\ pc' = "Editing"
                     /\ UNCHANGED dialogs
    /\ UNCHANGED <<guiVars, editable, nextId, layer, existing_ids, res1, res2,
                   final_output_ref, new_layers, ghostVars>>

\* Lines 108-118: a valid handle is added to the project unless its id is a key
\* already; otherwise the last of new_layers is taken; without a valid layer the
\* invocation fails.
Registering ==
    /\ pc = "Registering"
    /\ LET fl == Chosen(final_layer, new_layers)
           add == Truthy(final_layer) /\ final_layer.valid
                  /\ final_layer.id \notin MapLayerKeys(registry)
       IN  /\ final_layer' = fl
           /\ registry' = IF add THEN Append(registry, final_layer) ELSE registry
           /\ calls' = IF add THEN Append(calls, Call("addMapLayer", final_layer.id))
                       ELSE calls
           /\ IF ~Truthy(fl) \/ ~fl.valid
                THEN Abort(NoFinalText, "")
                ELSE /\ pc' = "Editing"
                     /\ UNCHANGED dialogs
    /\ UNCHANGED <<guiVars, editable, nextId, layer, existing_ids, res1, res2,
                   final_output_ref, new_layers, ghostVars>>

\* ---------------------------------------------------------------- editing
\* How the host can answer isEditable() and startEditing().
IsEditableAnswers == {"answers", "raises"}
StartEditingAnswers == {"ok", "refuses", "raises"}

\* Lines 120-128 with the inner handler missing: a raise reaches the outer one.
EditingNotSwallowed ==
    /\ pc = "Editing"
    /\ \E ie \in IsEditableAnswers, se \in StartEditingAnswers :
         LET asked == ie = "answers" /\ final_layer.id \notin editable
             threw == ie = "raises" \/ (asked /\ se = "raises")
         IN  /\ calls' = IF asked THEN Append(calls, Call("startEditing", final_layer.id))
                         ELSE calls
             /\ editable' = IF asked /\ se = "ok" THEN editable \cup {final_layer.id}
                            ELSE editable
             /\ editOutcome' = IF threw THEN "raised"
                               ELSE IF ~asked THEN "already"
                               ELSE IF se = "ok" THEN "started" ELSE "refused"
             /\ IF threw
                  THEN Abort(PipelineText, "startEditing failed")
                  ELSE /\ dialogs' = Append(dialogs, ShowInfo(DoneText, final_layer.id))
                       /\ pc' = "Done"
    /\ UNCHANGED <<guiVars, registry, nextId, localVars, regBefore, edBefore,
                   svcAdded, raisedAt, prev>>

\* Lines 120-128 without the isEditable() test: startEditing() is always called.
EditingAlways ==
    /\ pc = "Editing"
    /\ \E se \in StartEditingAnswers :
         /\ calls' = Append(calls, Call("startEditing", final_layer.id))
         /\ editable' = IF se = "ok" THEN editable \cup {final_layer.id} ELSE editable
         /\ editOutcome' = IF se = "raises" THEN "raised"
                           ELSE IF se = "ok" THEN "started" ELSE "refused"
         /\ dialogs' = Append(dialogs, ShowInfo(DoneText, final_layer.id))
         /\ pc' = "Done"
    /\ UNCHANGED <<guiVars, registry, nextId, localVars, regBefore, edBefore,
                   svcAdded, raisedAt, prev>>

\* Lines 120-128: startEditing() if isEditable() says no, a raise of either
\* ignored; then the informational dialog naming final_layer.
Editing ==
    /\ pc = "Editing"
    /\ \E ie \in IsEditableAnswers, se \in StartEditingAnswers :
         LET asked == ie = "answers" /\ final_layer.id \notin editable
             threw == ie = "raises" \/ (asked /\ se = "raises")
         IN  /\ calls' = IF asked THEN Append(calls, Call("startEditing", final_layer.id))
                         ELSE calls
             /\ editable' = IF asked /\ se = "ok" THEN editable \cup {final_layer.id}
                            ELSE editable
             /\ editOutcome' = IF threw THEN "raised"
                               ELSE IF ~asked THEN "already"
                               ELSE IF se = "ok" THEN "started" ELSE "refused"
             /\ dialogs' = Append(dialogs, ShowInfo(DoneText, final_layer.id))
             /\ pc' = "Done"
    /\ UNCHANGED <<guiVars, registry, nextId, localVars, regBefore, edBefore,
                   svcAdded, raisedAt, prev>>

\* ----------------------------------------------------------- specification
\* The lifecycle hooks act on self.action and the interface only, run on the
\* project, the layers and its own locals only: neither reads what the other
\* writes.  SpecGui is the plugin under the host's lifecycle calls, SpecRun the
\* plugin under invocations of run, Spec both.
NextGui ==
    \/ InitGui
    \/ Unload

NextRun ==
    \/ Trigger
    \/ Validate
    \/ Stage1
    \/ Stage2
    \/ Stage3
    \/ Resolving
    \/ Registering
    \/ Editing

Next == NextGui \/ NextRun

SpecGui == Init /\ [][NextGui]_vars

SpecRun == Init /\ [][NextRun]_vars

Spec == Init /\ [][Next]_vars

\* ================================================================== claims
\* The active layer fails the precondition: there is none, or it has no field
\* named PHOTO_ID (a layer without fields() has no field at all).
MissingInput == layer.kind = "none" \/ "PHOTO_ID" \notin layer.fields

\* The invocation's calls of the operation op.
CallsOf(op) == SelectSeq(calls, LAMBDA c : c.op = op)

\* The ids in the registry that the snapshot before stage 1 did not hold.
NewIds == MapLayerKeys(registry) \ existing_ids

\* C1: an invocation with no active layer, or with an active layer that has no
\* field named PHOTO_ID, ends in failure with the one validation error dialog,
\* having called no processing algorithm (nor anything else on the host) and
\* having left the registry and every layer's edit state as they were.
C1_ValidationAborts ==
    (pc \notin {"Idle", "Validating"} /\ MissingInput) =>
        /\ pc = "Failed"
        /\ Len(dialogs) = 1
        /\ dialogs[1].kind = "error"
        /\ dialogs[1].text = (IF layer.kind = "none" THEN NoLayerText ELSE NoFieldText)
        /\ calls = <<>>
        /\ registry = regBefore
        /\ editable = edBefore

\* C2 as stated: when a stage's processing.run raised, the invocation failed
\* with the pipeline error dialog carrying the message, no later stage ran, no
\* layer was put in edit mode, and the registry is as it was before stage 1.
C2_RegistryUnchanged ==
    raisedAt # 0 =>
        /\ pc = "Failed"
        /\ Len(dialogs) = 1
        /\ dialogs[1].kind = "error"
        /\ dialogs[1].text = PipelineText
        /\ dialogs[1].detail \in ErrMsgs
        /\ Len(calls) = raisedAt
        /\ editable = edBefore
        /\ registry = regBefore

\* C2 amended: when a stage's processing.run raised, the invocation failed with
\* the pipeline error dialog carrying the message, exactly the stages up to the
\* raising one were called, the plugin added no layer and started no editing,
\* and the registry is as it was before stage 1 but for the layers the
\* processing service itself registered.
C2_PipelineFailure ==
    raisedAt # 0 =>
        /\ pc = "Failed"
        /\ Len(dialogs) = 1
        /\ dialogs[1].kind = "error"
        /\ dialogs[1].text = PipelineText
        /\ dialogs[1].detail \in ErrMsgs
        /\ Len(calls) = raisedAt
        /\ \A i \in 1..Len(calls) : calls[i].op \in Algorithms
        /\ calls[1] = Call("native:pointstopath", layer.id)
        /\ editable = edBefore
        /\ SelectSeq(registry, LAMBDA l : l.id \notin svcAdded) = regBefore
        /\ MapLayerKeys(registry) = existing_ids \cup svcAdded
        /\ (svcAdded = {} => registry = regBefore)

\* The second stage raised after the first had registered a layer.
C2_Witness ==
    /\ pc = "Failed"
    /\ raisedAt = 2
    /\ svcAdded # {}
    /\ Len(calls) = 2

\* C3 as stated: after a successful run the registry holds exactly one id that
\* the snapshot did not, and it is a vector layer's.
C3_ExactlyOneNew ==
    pc = "Done" =>
        /\ Cardinality(NewIds) = 1
        /\ \A i \in NewIds : MapLayer(registry, i).kind = "vector"

\* C3 amended: after a successful run the final layer is a valid vector layer of
\* the registry, the plugin added at most one layer, and the new ids are those
\* the processing service registered plus the final layer's unless that was
\* registered before the snapshot; so exactly one is new when the service
\* registered none and the final layer was not registered before.
C3_NewLayers ==
    pc = "Done" =>
        /\ final_layer \in Range(registry)
        /\ final_layer.kind = "vector"
        /\ final_layer.valid
        /\ Len(CallsOf("addMapLayer")) <= 1
        /\ NewIds = svcAdded \cup ({final_layer.id} \ existing_ids)
        /\ (svcAdded = {} /\ final_layer.id \notin existing_ids)
              => NewIds = {final_layer.id}

\* A successful run in which only the plugin added a layer.
C3_Witness ==
    /\ pc = "Done"
    /\ svcAdded = {}
    /\ Cardinality(NewIds) = 1
    /\ Len(CallsOf("addMapLayer")) = 1

\* Stage 3 returned, and neither its handle nor the registry diff holds a valid
\* vector layer.
Unresolvable ==
    /\ pc = "Registering"
    /\ ~(final_layer.kind = "vector" /\ final_layer.valid)
    /\ \A l \in Range(registry) :
          (l.id \notin existing_ids /\ l.kind = "vector") => ~l.valid

\* C4: when stage 3 succeeded without a resolvable valid layer, the invocation
\* ends there with the one error dialog about the final layer; nothing is added
\* to the registry, startEditing is not called, no success dialog is shown.
C4_UnresolvedFails ==
    [][Unresolvable =>
          /\ pc' = "Failed"
          /\ Len(dialogs') = 1
          /\ dialogs'[1].kind = "error"
          /\ dialogs'[1].text = NoFinalText
          /\ registry' = registry
          /\ editable' = editable
          /\ calls' = calls
          /\ \A i \in 1..Len(calls') : calls'[i].op \in Algorithms]_vars

\* A run failed on resolution although the service had registered layers.
C4_Witness ==
    /\ pc = "Failed"
    /\ Len(dialogs) = 1
    /\ dialogs[1].text = NoFinalText
    /\ svcAdded # {}
    /\ Len(calls) = 3

\* C5: an invocation shows no dialog while it runs and has shown exactly one when
\* it has ended, whichever way: the informational one if it succeeded, an error
\* one if not.
C5_OneDialog ==
    /\ Len(dialogs) <= 1
    /\ (AtRest /\ pc # "Idle") => Len(dialogs) = 1
    /\ (pc \in {"Validating", "Stage1", "Stage2", "Stage3", "Resolving",
                "Registering", "Editing"}) => dialogs = <<>>
    /\ pc = "Done" => (Len(dialogs) = 1 /\ dialogs[1].kind = "info")
    /\ pc = "Failed" => (Len(dialogs) = 1 /\ dialogs[1].kind = "error")

\* C6: when isEditable or startEditing raised, the invocation still ended with
\* the informational dialog alone, and the final layer is in the registry, as
\* is every layer the plugin added.
C6_EditFailureSwallowed ==
    editOutcome = "raised" =>
        /\ pc = "Done"
        /\ dialogs = << ShowInfo(DoneText, final_layer.id) >>
        /\ final_layer \in Range(registry)
        /\ \A i \in 1..Len(calls) :
              calls[i].op = "addMapLayer" => calls[i].arg \in MapLayerKeys(registry)
        /\ final_layer.id \in editable <=> final_layer.id \in edBefore

\* Editing raised on a layer the plugin had just added.
C6_Witness ==
    /\ editOutcome = "raised"
    /\ CallsOf("addMapLayer") = << Call("addMapLayer", final_layer.id) >>
    /\ CallsOf("startEditing") # <<>>

\* C7: after a successful run the layer the dialog names is the final layer, it
\* is in the registry, and it is editable if it already was or startEditing
\* succeeded.
C7_RegisteredAndEditable ==
    pc = "Done" =>
        /\ dialogs[1].layer = final_layer.id
        /\ final_layer.id \in MapLayerKeys(registry)
        /\ (editOutcome \in {"already", "started"} => final_layer.id \in editable)

\* A layer that was not in the project was registered and put in edit mode.
C7_Witness ==
    /\ pc = "Done"
    /\ editOutcome = "started"
    /\ final_layer.id \notin existing_ids
    /\ final_layer.id \in editable

\* C8: every invocation on an invalid active layer (or with none) fails validation
\* with the error dialog that goes with that layer, the same dialog as the latest
\* invocation that failed validation on that layer, and leaves the registry and
\* the edit state alone, whatever ran before or in between.
C8_ValidationIdempotent ==
    (pc \notin {"Idle", "Validating"} /\ MissingInput) =>
        /\ pc = "Failed"
        /\ dialogs = << ShowError(IF layer.kind = "none" THEN NoLayerText
                                  ELSE NoFieldText, "") >>
        /\ (prev.layer = layer.id => dialogs = prev.dialogs)
        /\ registry = regBefore
        /\ editable = edBefore

\* C9 as stated: after unload no menu entry and no toolbar icon of the plugin
\* remains, and an unload with no action set calls nothing on the interface.
C9_UnloadRemovesAll ==
    lastHook = "unload" =>
        /\ menu = {}
        /\ toolbar = {}
        /\ (action = 0 => ifaceCalls = <<>>)

\* C9 amended: after unload the entries of the action initGui created last are
\* gone; nothing at all remains unless initGui had run while an earlier action
\* was still registered, in which case that action's entries stay; an unload
\* with no action set calls nothing on the interface.
C9_UnloadRemovesCurrent ==
    lastHook = "unload" =>
        /\ action \notin menu \cup toolbar
        /\ (~doubleInit => (menu = {} /\ toolbar = {}))
        /\ (doubleInit => (menu # {} /\ toolbar # {}))
        /\ (action = 0 => ifaceCalls = <<>>)
        /\ (action # 0 => ifaceCalls = << Call("removePluginMenu", action),
                                          Call("removeToolBarIcon", action) >>)

\* The plugin was loaded and unloaded twice in turn.
C9_Witness ==
    /\ lastHook = "unload"
    /\ action = 2
    /\ ~doubleInit
    /\ menu = {}

\* The vector layer added last among those not in the snapshot.
LastAddedVector ==
    LET idx == {i \in 1..Len(registry) :
                   registry[i].id \notin existing_ids /\ registry[i].kind = "vector"}
    IN  registry[CHOOSE i \in idx : \A j \in idx : j <= i]

\* The registry diff decides the final layer.
FallbackUsed ==
    /\ pc = "Registering"
    /\ ~(Truthy(final_layer) /\ final_layer.valid)
    /\ new_layers # <<>>

\* C10 as stated: the layer the fallback takes is a vector layer that was not in
\* the snapshot, and of those the one added to the registry last.
C10_FallbackTakesLastAdded ==
    [][FallbackUsed =>
          /\ final_layer'.kind = "vector"
          /\ final_layer'.id \notin existing_ids
          /\ final_layer' = LastAddedVector]_vars


\* The handle lines 88-97 can yield for stage 3's output out, given the ids the
\* project holds: the object itself if it is a vector layer, else nothing or, for
\* a reference, a layer object that is new.
HandleOf(out, h, keys) ==
    IF out.kind = "vector" THEN h = out
    ELSE IF out.kind = "ref" THEN h.kind = "none" \/ (h.kind = "vector" /\ h.id \notin keys)
    ELSE h.kind = "none"

\* C11: the handle resolution tries first is stage 3's return value, taken as it
\* is or re-opened; when that handle is a valid layer it is the final layer,
\* whatever the registry diff holds; only when it is missing or invalid does a
\* layer of the diff become the final layer, and without one the handle stays.
C11_ResolutionPriority ==
    [][/\ pc = "Resolving" =>
             HandleOf(final_output_ref, final_layer', MapLayerKeys(registry))
       /\ pc = "Registering" =>
             IF final_layer.kind # "none" /\ final_layer.valid
               THEN final_layer' = final_layer
               ELSE IF new_layers # <<>>
               THEN /\ final_layer' \in Range(new_layers)
                    /\ final_layer'.id \in NewIds
                    /\ registry' = registry
               ELSE final_layer' = final_layer]_vars

\* A run succeeded with the layer stage 3 returned although the service had
\* registered another valid vector layer.
C11_Witness ==
    /\ pc = "Done"
    /\ final_layer = final_output_ref
    /\ \E l \in Range(registry) :
          /\ l.id \in svcAdded
          /\ l.id # final_layer.id
          /\ l.kind = "vector"
          /\ l.valid


\* The processing calls of a whole pipeline, with the input each stage is given.
Pipeline ==
    << Call("native:pointstopath", layer.id),
       Call("native:explodelines", res1.id),
       Call("native:fieldcalculator", res2.id) >>

\* How many processing calls the invocation has made when it is at position p.
StagesCalledAt(p) ==
    CASE p \in {"Idle", "Validating", "Stage1"} -> {0}
      [] p = "Stage2" -> {1}
      [] p = "Stage3" -> {2}
      [] p \in {"Resolving", "Registering", "Editing", "Done"} -> {3}
      [] p = "Escaped" -> {0}
      [] p = "Failed" -> IF raisedAt # 0 THEN {raisedAt}
                         ELSE IF existing_ids = {} THEN {0} ELSE {3}

\* C12: the invocation's calls are the three processing calls in their order,
\* each at most once and each later one only after the one before returned and
\* with that one's output as input, and only after the third returned an
\* addMapLayer or startEditing call.
C12_StageOrder ==
    LET n == Len(CallsOf("native:pointstopath")) + Len(CallsOf("native:explodelines"))
             + Len(CallsOf("native:fieldcalculator"))
    IN  /\ n \in StagesCalledAt(pc)
        /\ Len(calls) >= n
        /\ SubSeq(calls, 1, n) = SubSeq(Pipeline, 1, n)
        /\ n >= 2 => (res1.kind # "none" /\ raisedAt # 1)
        /\ n >= 3 => (res2.kind # "none" /\ raisedAt # 2)
        /\ Len(calls) > n =>
              /\ n = 3
              /\ raisedAt = 0
              /\ final_output_ref.kind # "none"
              /\ pc \in {"Editing", "Done"}
              /\ \A i \in 4..Len(calls) : calls[i].op \in {"addMapLayer", "startEditing"}

\* A whole pipeline ran, its second stage on the layer the first registered and
\* handed on, and the plugin then added a layer and started editing.
C12_Witness ==
    /\ pc = "Done"
    /\ Len(calls) = 5
    /\ res1.kind = "vector"
    /\ res2.kind # "none"
    /\ calls[2].arg = res1.id
    /\ calls[3].arg = res2.id


\* startEditing is called at most once in an invocation, after resolution, on the
\* final layer, which is a valid vector layer of the registry that was not in
\* edit mode; no other layer's edit state changes.
EditsOnlyFinal ==
    LET S == CallsOf("startEditing")
    IN  /\ Len(S) <= 1
        /\ S # <<>> =>
              /\ pc = "Done"
              /\ S[1].arg = final_layer.id
              /\ final_layer.kind = "vector"
              /\ final_layer.valid
              /\ final_layer \in Range(registry)
              /\ final_layer.id \notin edBefore
              /\ editOutcome \in {"started", "refused", "raised"}
        /\ edBefore \subseteq editable
        /\ editable \ edBefore \subseteq {S[i].arg : i \in 1..Len(S)}

\* C13 as stated: startEditing is called at most once, on the resolved, valid,
\* not yet editable final layer, and the layer it is called on is never the input
\* layer nor the output of stage 1 or stage 2.
C13_NeverInputOrIntermediate ==
    /\ EditsOnlyFinal
    /\ \A i \in 1..Len(calls) :
          calls[i].op = "startEditing" => calls[i].arg \notin {layer.id, res1.id, res2.id}

\* C13 amended: startEditing is called at most once, on the resolved, valid, not
\* yet editable final layer and on no other layer; the input layer or the output
\* of stage 1 or stage 2 is put in edit mode only when resolution made it the
\* final layer, because stage 3 returned it or the registry diff selected it.
C13_EditsOnlyFinal ==
    /\ EditsOnlyFinal
    /\ \A i \in 1..Len(calls) :
          (calls[i].op = "startEditing" /\ calls[i].arg \in {layer.id, res1.id, res2.id})
             => \/ final_output_ref.id = calls[i].arg
                \/ (calls[i].arg \in svcAdded /\ CallsOf("addMapLayer") = <<>>
                    /\ ~(final_output_ref.kind = "vector" /\ final_output_ref.valid))

\* Editing was started on a layer that stage 3 returned and the plugin added,
\* while the layer stage 1 registered and handed on was left alone.
C13_Witness ==
    /\ pc = "Done"
    /\ editOutcome = "started"
    /\ CallsOf("startEditing") = << Call("startEditing", final_output_ref.id) >>
    /\ res1.kind = "vector"
    /\ res1.id \notin editable


\* The registry keeps every entry it had, in place, and gains only the layers the
\* service registered and those the plugin added, each id once.
RegistryOnlyGrows ==
    /\ Len(registry) >= Len(regBefore)
    /\ SubSeq(registry, 1, Len(regBefore)) = regBefore
    /\ Len(registry) = Len(regBefore) + Cardinality(svcAdded)
                         + Len(CallsOf("addMapLayer"))
    /\ Cardinality(MapLayerKeys(registry)) = Len(registry)

\* C14 as stated: the plugin calls addMapLayer at most once in an invocation, with
\* the resolved final layer, which is then a valid vector layer whose id was no
\* key of the registry (so neither a layer of the snapshot nor one the service
\* registered, which is what the fallback yields) and is none of the input layer
\* and the outputs of stages 1 and 2; the registry only grows.
C14_NeverIntermediate ==
    LET A == CallsOf("addMapLayer")
    IN  /\ Len(A) <= 1
        /\ RegistryOnlyGrows
        /\ A # <<>> =>
              /\ pc \in {"Editing", "Done"}
              /\ A[1].arg = final_layer.id
              /\ final_layer.kind = "vector"
              /\ final_layer.valid
              /\ registry[Len(registry)] = final_layer
              /\ final_layer.id \notin existing_ids \cup svcAdded
              /\ final_layer.id \notin {layer.id, res1.id, res2.id}
        /\ (pc \in {"Editing", "Done"} /\ final_layer.id \in existing_ids \cup svcAdded)
              => A = <<>>

\* C14 amended: the plugin calls addMapLayer at most once in an invocation, with
\* the resolved final layer, which is then a valid vector layer whose id was no
\* key of the registry (so neither a layer of the snapshot, the input layer among
\* them, nor one the service registered, which is what the fallback yields); the
\* layer added is the output of stage 1 or stage 2 only when stage 3 handed that
\* very object back; the registry only grows.
C14_AddsOnlyFinalOnce ==
    LET A == CallsOf("addMapLayer")
    IN  /\ Len(A) <= 1
        /\ RegistryOnlyGrows
        /\ A # <<>> =>
              /\ pc \in {"Editing", "Done"}
              /\ A[1].arg = final_layer.id
              /\ final_layer.kind = "vector"
              /\ final_layer.valid
              /\ registry[Len(registry)] = final_layer
              /\ final_layer.id \notin existing_ids \cup svcAdded
              /\ final_layer.id # layer.id
              /\ final_layer.id \in {res1.id, res2.id} => final_output_ref = final_layer
        /\ (pc \in {"Editing", "Done"} /\ final_layer.id \in existing_ids \cup svcAdded)
              => A = <<>>

\* The plugin added the layer object that stage 2 and then stage 3 handed back,
\* and not the one stage 1 handed back, which is in no project.
C14_Witness ==
    /\ pc = "Done"
    /\ CallsOf("addMapLayer") = << Call("addMapLayer", final_layer.id) >>
    /\ final_layer = res2
    /\ res1.kind = "vector"
    /\ res1.valid
    /\ res1.id \notin MapLayerKeys(registry)

====
